---- MODULE Spec2Model ----
(***************************************************************************)
(* Flask chatroom (src/src/main.py): the input sanitizer, the /send        *)
(* command dispatcher and the register / login / account / logout          *)
(* handlers over the user and message tables.                              *)
(*                                                                         *)
(* Text is a sequence of code points (36 is "$", 32 is " ").               *)
(***************************************************************************)
EXTENDS Integers, Sequences, FiniteSets, TLC

VARIABLES
    _input,      \* sanitize_input's argument (sanitizer specification)
    result,      \* sanitize_input(_input)
    again,       \* sanitize_input(result)
    pc,          \* position of the sanitizer run: start, once, twice
    user,        \* rows of table user, in insertion order
    user_seq,    \* AUTOINCREMENT counter of table user
    message,     \* rows of table message, in insertion order
    session,     \* the client's session: <<>>, or <<id>> when it holds user_id
    request,     \* the request handled last
    response,    \* its response: status, notifications flashed, page or redirect
    registered,  \* history: registrations whose account was not updated since
    workload     \* the requests the clients send: chat, accounts (or the sanitizer run)

sanVars == <<_input, result, again, pc, workload>>

appVars == <<user, user_seq, message, session, request, response, registered>>

vars == <<_input, result, again, pc, user, user_seq, message, session, request,
          response, registered, workload>>

----------------------------------------------------------------------------
(* Bounds of the model *)

MaxPrefix == 2     \* free characters in front of the padding of an input
MaxSuffix == 1     \* free characters behind the padding
PadSlack == 1      \* padding lengths run from MaxLength-PadSlack to MaxLength+PadSlack
MaxUsers == 2      \* rows of table user
MaxMessages == 2   \* rows of table message

----------------------------------------------------------------------------
(* sanitize_input, main.py 10-12 *)

MaxLength == 256

Dollar == 36

Space == 32

\* the negated character class [^a-zA-Z0-9_@.\-:() ] of the pattern
AllowListed(c) ==
    \/ c \in 97..122
    \/ c \in 65..90
    \/ c \in 48..57
    \/ c \in {95, 64, 46, 45, 58, 40, 41, 32}

\* re.sub(pattern, "", s): every character outside the class is dropped, the
\* others keep their order (evaluated by halves to keep the nesting shallow)
\* re.sub with count=1: only the first character outside the class is dropped
RECURSIVE re_sub_first(_)
re_sub_first(s) ==
    IF s = <<>> THEN <<>>
    ELSE IF AllowListed(Head(SubSeq(s, 1, 1))) THEN
        (IF \A i \in 1..Len(s) : AllowListed(s[i]) THEN s
         ELSE LET i == CHOOSE i \in 1..Len(s) :
                           /\ ~AllowListed(s[i])
                           /\ \A j \in 1..(i - 1) : AllowListed(s[j])
              IN  SubSeq(s, 1, i - 1) \o SubSeq(s, i + 1, Len(s)))
    ELSE Tail(s)

RECURSIVE re_sub(_)
re_sub(s) ==
    IF s = <<>> THEN <<>>
    ELSE IF Len(s) = 1 THEN (IF AllowListed(s[1]) THEN s ELSE <<>>)
    ELSE LET half == Len(s) \div 2
         IN  re_sub(SubSeq(s, 1, half)) \o re_sub(SubSeq(s, half + 1, Len(s)))

\* s[:n]
Slice(s, n) == IF Len(s) <= n THEN s ELSE SubSeq(s, 1, n)

\* the slice taken before the substitution
sanitize_input_slice_first(x) == re_sub(Slice(x, MaxLength))

sanitize_input(x) == Slice(re_sub(x), MaxLength)

----------------------------------------------------------------------------
(* Sanitizer specification: inputs drawn from a bounded set *)

\* "$", "-" and "/"
SanAlphabet == {36, 45, 47}

RECURSIVE StringsUpTo(_, _)
StringsUpTo(alphabet, n) ==
    IF n = 0 THEN {<<>>}
    ELSE LET shorter == StringsUpTo(alphabet, n - 1)
         IN  shorter \cup {<<c>> \o s : c \in alphabet, s \in {t \in shorter : Len(t) = n - 1}}

Pad(c, n) == [i \in 1..n |-> c]

PadLengths == {0} \cup ((MaxLength - PadSlack)..(MaxLength + PadSlack))

\* "a" and a non-ASCII letter
PadChars == {97, 233}

SanInputs ==
    {p \o Pad(c, n) \o s :
        p \in StringsUpTo(SanAlphabet, MaxPrefix),
        c \in PadChars,
        n \in PadLengths,
        s \in StringsUpTo(SanAlphabet, MaxSuffix)}

----------------------------------------------------------------------------
(* The application state at start: empty tables, no session *)

NoRequest == [route |-> "none", method |-> "GET", form |-> <<>>]

NoResponse == [status |-> 0, flashes |-> <<>>, body |-> <<"none", "">>, context |-> <<>>]

InitApp ==
    /\ user = <<>>
    /\ user_seq = 0
    /\ message = <<>>
    /\ session = <<>>
    /\ request = NoRequest
    /\ response = NoResponse
    /\ registered = {}

InitSan ==
    /\ _input \in SanInputs
    /\ result = <<>>
    /\ again = <<>>
    /\ pc = "start"
    /\ workload = "sanitizer"
    /\ InitApp

Sanitize ==
    /\ pc = "start"
    /\ result' = sanitize_input(_input)
    /\ pc' = "once"
    /\ UNCHANGED <<_input, again, workload>>
    /\ UNCHANGED appVars

SanitizeAgain ==
    /\ pc = "once"
    /\ again' = sanitize_input(result)
    /\ pc' = "twice"
    /\ UNCHANGED <<_input, result, workload>>
    /\ UNCHANGED appVars

NextSan == Sanitize \/ SanitizeAgain

SpecSan == InitSan /\ [][NextSan]_vars

----------------------------------------------------------------------------
(* Text helpers of the handlers *)

\* s.startswith(p)
startswith(s, p) == Len(s) >= Len(p) /\ SubSeq(s, 1, Len(p)) = p

\* s.split(sep, 1): the text before the first sep and the text behind it, or
\* s alone when it has no sep
split_once(s, sep) ==
    IF \E i \in 1..Len(s) : s[i] = sep
    THEN LET i == CHOOSE i \in 1..Len(s) : s[i] = sep /\ \A j \in 1..(i - 1) : s[j] # sep
         IN  <<SubSeq(s, 1, i - 1), SubSeq(s, i + 1, Len(s))>>
    ELSE <<s>>

\* s.lower()
lower(s) == [i \in 1..Len(s) |-> IF s[i] \in 65..90 THEN s[i] + 32 ELSE s[i]]

\* command names
help == <<104, 101, 108, 112>>
swapchannel == <<115, 119, 97, 112, 99, 104, 97, 110, 110, 101, 108>>
whisper == <<119, 104, 105, 115, 112, 101, 114>>
account_cmd == <<97, 99, 99, 111, 117, 110, 116>>
silent == <<115, 105, 108, 101, 110, 116>>
setslowmode == <<115, 101, 116, 115, 108, 111, 119, 109, 111, 100, 101>>

----------------------------------------------------------------------------
(* Responses *)

\* flash(text, category); arg is the value formatted into an f-string
Flash(text, arg, category) == [text |-> text, arg |-> arg, category |-> category]

\* redirect(url_for(endpoint))
Redirect(flashes, endpoint) ==
    [status |-> 302, flashes |-> flashes, body |-> <<"redirect", endpoint>>, context |-> <<>>]

\* render_template(template, user=...)
Render(flashes, template, context) ==
    [status |-> 200, flashes |-> flashes, body |-> <<"render", template>>, context |-> context]

\* an exception no handler catches: the request fails
ServerError(exception) ==
    [status |-> 500, flashes |-> <<>>, body |-> <<"error", exception>>, context |-> <<>>]

help_text == "$help - shows this help message ... $setslowmode <duration> - set the current channel's slowmode"

\* session.get("user_id", default)
session_get(s, default) == IF s = <<>> THEN default ELSE s[1]

----------------------------------------------------------------------------
(* Tables *)

\* class Message; the id is the next rowid. The datetime column (the wall
\* clock at insertion) is not part of the model.
Message(id, senderid, recipientid, content) ==
    [id |-> id, senderid |-> senderid, recipientid |-> recipientid, content |-> content]

\* db.session.add(row) without the commit: the row is lost with the request
db_session_add_uncommitted(table, row) == table

\* db.session.add(row); db.session.commit()
db_session_add(table, row) == Append(table, row)

\* a row of table user as INSERT INTO user (username, email, password_hash)
\* makes it: the other columns are NULL, written <<>>; a value v is <<v>>
User(id, username, email, password_hash) ==
    [id |-> id, username |-> username, displayname |-> <<>>, email |-> email,
     password_hash |-> password_hash, bio |-> <<>>, profile_image |-> <<>>]

\* no UNIQUE on column username
UniqueUsername_absent(rows, row) == TRUE

\* username TEXT UNIQUE: no other row has the username of row
UniqueUsername(rows, row) ==
    \A i \in 1..Len(rows) : rows[i].id # row.id => rows[i].username # row.username

\* no UNIQUE on column email
UniqueEmail_absent(rows, row) == TRUE

\* email TEXT UNIQUE: no other row has the email of row
UniqueEmail(rows, row) ==
    \A i \in 1..Len(rows) : rows[i].id # row.id => rows[i].email # row.email

\* sqlite3.IntegrityError of a statement that leaves row in rows
IntegrityError(rows, row) == ~UniqueUsername(rows, row) \/ ~UniqueEmail(rows, row)

\* SELECT ... FROM user WHERE username = ? picking the first row of the table
SelectByUsername_first(rows, username) == SelectSeq(rows, LAMBDA r : TRUE)

\* SELECT ... FROM user WHERE username = ?
SelectByUsername(rows, username) == SelectSeq(rows, LAMBDA r : r.username = username)

\* SELECT ... FROM user WHERE id = ?
SelectById(rows, id) == SelectSeq(rows, LAMBDA r : r.id = id)

\* c.fetchone(): <<>> for None
fetchone(rows) == IF rows = <<>> THEN <<>> ELSE <<Head(rows)>>

\* UPDATE user SET username=?, displayname=?, email=?, bio=?, profile_image=? WHERE id=?
UpdateUser(rows, id, username, displayname, email, bio, profile_image) ==
    [i \in 1..Len(rows) |->
        IF rows[i].id = id
        THEN [rows[i] EXCEPT !.username = username, !.displayname = <<displayname>>,
                             !.email = email, !.bio = <<bio>>,
                             !.profile_image = <<profile_image>>]
        ELSE rows[i]]

----------------------------------------------------------------------------
(* werkzeug.security: the digest is an ideal one, told apart by salt and
   password *)

NumSalts == 1

Salts == 1..NumSalts

Digest(salt, password) == <<"digest", salt, password>>

generate_password_hash(password, salt) == [salt |-> salt, digest |-> Digest(salt, password)]

\* a check that accepts every password
check_password_hash_any(pwhash, password) == pwhash.digest[1] = "digest"

check_password_hash(pwhash, password) == pwhash.digest = Digest(pwhash.salt, password)

----------------------------------------------------------------------------
(* Form inputs: the chat workload varies the messages, the accounts
   workload the credentials *)

\* "hello", "hi!", "$help", "$bogus", "$silent"
MessageInputs ==
    IF workload = "chat"
    THEN { <<104, 101, 108, 108, 111>>,
           <<104, 105, 33>>,
           <<36, 104, 101, 108, 112>>,
           <<36, 98, 111, 103, 117, 115>>,
           <<36, 115, 105, 108, 101, 110, 116>> }
    ELSE { <<104, 101, 108, 108, 111>> }

\* "a", "a!", "b"
UsernameInputs ==
    IF workload = "chat" THEN { <<97>>, <<98>> } ELSE { <<97>>, <<97, 33>>, <<98>> }

\* "x", "y"
EmailInputs == { <<120>>, <<121>> }

\* "p", "p!"
PasswordInputs == IF workload = "chat" THEN { <<112>> } ELSE { <<112>>, <<112, 33>> }

\* "d!"
DisplaynameInputs == { <<100, 33>> }

\* the username and email fields of the account form
AccountUsernameInputs == IF workload = "chat" THEN { <<98>> } ELSE UsernameInputs

AccountEmailInputs == IF workload = "chat" THEN { <<121>> } ELSE EmailInputs

EmptyForm == <<>>

Request(route, method, form) == [route |-> route, method |-> method, form |-> form]

----------------------------------------------------------------------------
(* POST /send, main.py 105-158 *)

\* the command branch of send_message, for a sanitized msg that starts with "$"
Command(msg) ==
    LET parts == split_once(Tail(msg), Space)
        command == lower(parts[1])
        args == Tail(parts)
    IN  IF command = help THEN
            Redirect(<<Flash(help_text, <<>>, "info")>>, "index")
        ELSE IF command = swapchannel /\ args # <<>> THEN
            Redirect(<<Flash("Swapped to channel ", sanitize_input(args[1]), "info")>>, "index")
        ELSE IF command = whisper /\ args # <<>> THEN
            Redirect(<<Flash("Whispered to ",
                             sanitize_input(split_once(args[1], Space)[1]), "info")>>, "index")
        ELSE IF command = account_cmd THEN
            Redirect(<<>>, "account")
        ELSE IF command = silent /\ args # <<>> THEN
            Redirect(<<Flash("Silent message sent.", <<>>, "info")>>, "index")
        ELSE IF command = setslowmode /\ args # <<>> THEN
            Redirect(<<Flash("Slowmode set to  seconds.", sanitize_input(args[1]), "info")>>,
                     "index")
        ELSE
            Redirect(<<Flash("Unknown command or missing arguments.", <<>>, "error")>>, "index")

send_message ==
    \E raw \in MessageInputs :
        LET msg == sanitize_input(raw)
            user_id == session_get(session, 1)
        IN  /\ request' = Request("send", "POST", [message |-> raw])
            /\ IF startswith(msg, <<Dollar>>)
               THEN /\ response' = Command(msg)
                    /\ UNCHANGED message
               ELSE /\ Len(message) < MaxMessages
                    /\ message' = db_session_add(message,
                                      Message(Len(message) + 1, user_id, 1, msg))
                    /\ response' = Redirect(<<Flash("Message sent!", <<>>, "success")>>, "index")
            /\ UNCHANGED <<user, user_seq, session, registered>>
            /\ UNCHANGED sanVars

----------------------------------------------------------------------------
(* GET / , main.py 100-102 *)

index ==
    /\ request' = Request("index", "GET", EmptyForm)
    /\ response' = Render(<<>>, "chatroom.html", <<>>)
    /\ UNCHANGED <<user, user_seq, message, session, registered>>
    /\ UNCHANGED sanVars

----------------------------------------------------------------------------
(* GET/POST /register, main.py 209-230 *)

register_get ==
    /\ request' = Request("register", "GET", EmptyForm)
    /\ response' = Render(<<>>, "register.html", <<>>)
    /\ UNCHANGED <<user, user_seq, message, session, registered>>
    /\ UNCHANGED sanVars

register_post ==
    \E u \in UsernameInputs, e \in EmailInputs, p \in PasswordInputs, salt \in Salts :
        LET username == sanitize_input(u)
            email == sanitize_input(e)
            password_hash == generate_password_hash(p, salt)
            row == User(user_seq + 1, username, email, password_hash)
        IN  /\ request' = Request("register", "POST",
                                  [username |-> u, email |-> e, password |-> p])
            /\ IF IntegrityError(user, row)
               THEN /\ response' = Render(<<Flash("Username or email already exists.", <<>>,
                                                 "error")>>, "register.html", <<>>)
                    /\ UNCHANGED <<user, user_seq, registered>>
               ELSE /\ Len(user) < MaxUsers
                    /\ user' = Append(user, row)
                    /\ user_seq' = user_seq + 1
                    /\ registered' = registered \cup
                                        {[id |-> row.id, username |-> u, password |-> p]}
                    /\ response' = Redirect(<<Flash("Registration successful! Please log in.",
                                                   <<>>, "success")>>, "login")
            /\ UNCHANGED <<message, session>>
            /\ UNCHANGED sanVars

register == register_get \/ register_post

----------------------------------------------------------------------------
(* GET/POST /login, main.py 190-206 *)

login_get ==
    /\ request' = Request("login", "GET", EmptyForm)
    /\ response' = Render(<<>>, "login.html", <<>>)
    /\ UNCHANGED <<user, user_seq, message, session, registered>>
    /\ UNCHANGED sanVars

login_post ==
    \E u \in UsernameInputs, p \in PasswordInputs :
        LET username == sanitize_input(u)
            found == fetchone(SelectByUsername(user, username))
        IN  /\ request' = Request("login", "POST", [username |-> u, password |-> p])
            /\ IF found # <<>> /\ check_password_hash(found[1].password_hash, p)
               THEN /\ session' = <<found[1].id>>
                    /\ response' = Redirect(<<Flash("Logged in successfully!", <<>>,
                                                   "success")>>, "index")
               ELSE /\ response' = Render(<<Flash("Invalid username or password.", <<>>,
                                                 "error")>>, "login.html", <<>>)
                    /\ UNCHANGED session
            /\ UNCHANGED <<user, user_seq, message, registered>>
            /\ UNCHANGED sanVars

login == login_get \/ login_post

----------------------------------------------------------------------------
(* GET/POST /account, main.py 161-187 *)

account_anonymous ==
    /\ session = <<>>
    /\ \E method \in {"GET", "POST"} : request' = Request("account", method, EmptyForm)
    /\ response' = Redirect(<<Flash("Please log in to access your account.", <<>>, "error")>>,
                            "login")
    /\ UNCHANGED <<user, user_seq, message, session, registered>>
    /\ UNCHANGED sanVars

account_get ==
    /\ session # <<>>
    /\ request' = Request("account", "GET", EmptyForm)
    /\ response' = Render(<<>>, "account.html", fetchone(SelectById(user, session[1])))
    /\ UNCHANGED <<user, user_seq, message, session, registered>>
    /\ UNCHANGED sanVars

account_post ==
    /\ session # <<>>
    /\ \E u \in AccountUsernameInputs, d \in DisplaynameInputs, e \in AccountEmailInputs :
        LET user_id == session[1]
            username == sanitize_input(u)
            displayname == sanitize_input(d)
            email == sanitize_input(e)
            bio == sanitize_input(<<>>)
            profile_image == sanitize_input(<<>>)
            updated == UpdateUser(user, user_id, username, displayname, email, bio,
                                  profile_image)
            rows == SelectById(updated, user_id)
        IN  /\ request' = Request("account", "POST",
                                  [username |-> u, displayname |-> d, email |-> e,
                                   bio |-> <<>>, profile_image |-> <<>>])
            /\ IF rows # <<>> /\ IntegrityError(updated, rows[1])
               THEN /\ response' = ServerError("sqlite3.IntegrityError")
                    /\ UNCHANGED <<user, registered>>
               ELSE /\ user' = updated
                    /\ registered' = {g \in registered : g.id # user_id}
                    /\ response' = Render(<<Flash("Account updated!", <<>>, "success")>>,
                                          "account.html", fetchone(rows))
            /\ UNCHANGED <<user_seq, message, session>>
            /\ UNCHANGED sanVars

account == account_anonymous \/ account_get \/ account_post

----------------------------------------------------------------------------
(* GET /logout, main.py 233-237 *)

logout ==
    /\ request' = Request("logout", "GET", EmptyForm)
    /\ session' = <<>>
    /\ response' = Redirect(<<Flash("Logged out successfully.", <<>>, "success")>>, "login")
    /\ UNCHANGED <<user, user_seq, message, registered>>
    /\ UNCHANGED sanVars

----------------------------------------------------------------------------

InitIdle ==
    /\ InitApp
    /\ _input = <<>>
    /\ result = <<>>
    /\ again = <<>>
    /\ pc = "idle"

Init == InitIdle /\ workload = "accounts"

InitChat == InitIdle /\ workload = "chat"

Next ==
    \/ index
    \/ send_message
    \/ register_get
    \/ register_post
    \/ login_get
    \/ login_post
    \/ account_anonymous
    \/ account_get
    \/ account_post
    \/ logout

Spec == Init /\ [][Next]_vars

SpecChat == InitChat /\ [][Next]_vars

----------------------------------------------------------------------------
(* C1 - C4: POST /send, under SpecChat *)

SentMessage == request'.route = "send"

Posted(route) == request'.route = route /\ request'.method = "POST"

LastRow(table) == table[Len(table)]

UnknownCommandFlash == Flash("Unknown command or missing arguments.", <<>>, "error")

\* C1: a message that starts with "$" takes the command path: "$help"
\* produces the help text notification, and no Message row is appended.
CommandPathLeavesStore ==
    [][(SentMessage /\ startswith(request'.form.message, <<Dollar>>)) =>
          /\ message' = message
          /\ (request'.form.message = <<Dollar>> \o help =>
                 response'.flashes = <<Flash(help_text, <<>>, "info")>>)]_vars

\* C2: a Message row is appended only when the session holds a user id, its
\* senderid is that id, and every stored Message's senderid is the id of an
\* existing User.
SenderIsAuthenticatedUser ==
    [][/\ message' # message =>
            /\ session # <<>>
            /\ LastRow(message').senderid = session[1]
       /\ \A i \in 1..Len(message') :
            \E j \in 1..Len(user') : user'[j].id = message'[i].senderid]_vars

\* the command name and the arguments of a "$" message as submitted
SubmittedCommand(raw) == lower(split_once(Tail(raw), Space)[1])

SubmittedArgs(raw) == Tail(split_once(Tail(raw), Space))

Malformed(raw) ==
    \/ SubmittedCommand(raw) \notin
          {help, swapchannel, whisper, account_cmd, silent, setslowmode}
    \/ /\ SubmittedCommand(raw) \in {swapchannel, whisper, silent, setslowmode}
       /\ SubmittedArgs(raw) = <<>>
    \/ /\ SubmittedCommand(raw) = whisper
       /\ SubmittedArgs(raw) # <<>>
       /\ Len(split_once(SubmittedArgs(raw)[1], Space)) < 2

\* C3: a "$" message whose command is unknown, or misses its required
\* arguments, gets the generic failure notification and nothing else, and
\* neither the stores nor the session change.
MalformedCommandRejected ==
    [][(SentMessage /\ startswith(request'.form.message, <<Dollar>>)
           /\ Malformed(request'.form.message)) =>
          /\ response'.flashes = <<UnknownCommandFlash>>
          /\ message' = message
          /\ user' = user
          /\ session' = session]_vars

\* C4: a message that does not start with "$" appends exactly one Message
\* row, whose content is the sanitized message; the rows stored before and
\* the User rows are unchanged.
PlainMessageAppended ==
    [][(SentMessage /\ ~startswith(request'.form.message, <<Dollar>>)) =>
          /\ Len(message') = Len(message) + 1
          /\ SubSeq(message', 1, Len(message)) = message
          /\ LastRow(message').content = sanitize_input(request'.form.message)
          /\ user' = user]_vars

\* "hi!" was sent while a row was stored, and is stored as "hi" behind it
PlainMessageAppendedWitness ==
    /\ request.route = "send"
    /\ request.form.message = <<104, 105, 33>>
    /\ Len(message) = 2
    /\ message[2].content = <<104, 105>>
    /\ user # <<>>

----------------------------------------------------------------------------
(* C5 - C8: accounts, under Spec *)

UniqueUsers(rows) ==
    \A i, j \in 1..Len(rows) :
        i # j => rows[i].username # rows[j].username /\ rows[i].email # rows[j].email

EmailOfAnother(rows, id, email) ==
    \E i \in 1..Len(rows) : rows[i].id # id /\ rows[i].email = email

\* C5: an account update that sets the logged-in user's email to the email
\* of a different user is rejected and leaves the user table unchanged; no
\* two User rows ever share a username or an email.
DuplicateEmailUpdateRejected ==
    [][/\ (Posted("account") /\ session # <<>>
              /\ EmailOfAnother(user, session[1], sanitize_input(request'.form.email))) =>
            /\ user' = user
            /\ response'.status # 200
            /\ \A i \in 1..Len(response'.flashes) :
                   response'.flashes[i].category # "success"
       /\ UniqueUsers(user')]_vars

\* the logged-in user posted the email of the other user, with a username
\* the other user does not have, and the request failed
DuplicateEmailUpdateRejectedWitness ==
    /\ request.route = "account"
    /\ request.method = "POST"
    /\ session # <<>>
    /\ Len(user) = 2
    /\ EmailOfAnother(user, session[1], sanitize_input(request.form.email))
    /\ \A i \in 1..Len(user) :
           user[i].id # session[1] => user[i].username # sanitize_input(request.form.username)
    /\ response.status = 500

ConflictFlash == Flash("Username or email already exists.", <<>>, "error")

Taken(rows, username, email) ==
    \E i \in 1..Len(rows) : rows[i].username = username \/ rows[i].email = email

\* C6: a registration whose sanitized username and email are new adds
\* exactly one User row; one whose sanitized username or email is that of
\* an existing user gets the conflict notification and the registration
\* form, and the user table is unchanged.
RegistrationConflict ==
    [][Posted("register") =>
          LET username == sanitize_input(request'.form.username)
              email == sanitize_input(request'.form.email)
          IN  IF Taken(user, username, email)
              THEN /\ user' = user
                   /\ response'.flashes = <<ConflictFlash>>
                   /\ response'.body = <<"render", "register.html">>
              ELSE /\ Len(user') = Len(user) + 1
                   /\ SubSeq(user', 1, Len(user)) = user
                   /\ LastRow(user').username = username
                   /\ LastRow(user').email = email
                   /\ response'.body = <<"redirect", "login">>]_vars

\* "a!" was registered with a new email while "a" exists, and was refused
RegistrationConflictWitness ==
    /\ request.route = "register"
    /\ request.method = "POST"
    /\ request.form.username = <<97, 33>>
    /\ \E i \in 1..Len(user) : user[i].username = <<97>>
    /\ \A i \in 1..Len(user) : user[i].email # sanitize_input(request.form.email)
    /\ response.flashes = <<ConflictFlash>>

Verifies(row, password) == row.password_hash.digest = Digest(row.password_hash.salt, password)

\* C7: after a registration with username u and password p, and requests
\* that do not update that user's account, a login with u and p sets the
\* session's user_id to the id of the row the registration made; the
\* session's user_id is only set by a login whose password verifies against
\* the hash of the row looked up.
LoginAfterRegistration ==
    [][/\ Posted("login") =>
            \A g \in registered :
                (g.username = request'.form.username /\ g.password = request'.form.password)
                    => session' = <<g.id>>
       /\ (session' # session /\ session' # <<>>) =>
            /\ Posted("login")
            /\ \E i \in 1..Len(user) :
                   /\ user[i].id = session'[1]
                   /\ user[i].username = sanitize_input(request'.form.username)
                   /\ Verifies(user[i], request'.form.password)]_vars

\* the second user registered, a message was sent and the first user
\* updated its account; then the second logged in with its credentials
LoginAfterRegistrationWitness ==
    /\ request.route = "login"
    /\ request.method = "POST"
    /\ message # <<>>
    /\ Cardinality(registered) = 1
    /\ \E g \in registered :
           /\ g.id = 2
           /\ g.username = request.form.username
           /\ g.password = request.form.password
           /\ session = <<g.id>>

InvalidFlash == Flash("Invalid username or password.", <<>>, "error")

\* C8: a login with an existing username and a wrong password, and a login
\* with a username that does not exist, both get the notification "Invalid
\* username or password." and the login form, and leave the session and the
\* stores unchanged.
InvalidLogin ==
    [][(Posted("login")
           /\ \A i \in 1..Len(user) :
                  user[i].username = sanitize_input(request'.form.username)
                      => ~Verifies(user[i], request'.form.password)) =>
          /\ response' = Render(<<InvalidFlash>>, "login.html", <<>>)
          /\ session' = session
          /\ user' = user
          /\ user_seq' = user_seq
          /\ message' = message]_vars

\* a logged-in client posted an existing username with a wrong password
InvalidLoginWitness ==
    /\ request.route = "login"
    /\ request.method = "POST"
    /\ \E i \in 1..Len(user) :
           /\ user[i].username = sanitize_input(request.form.username)
           /\ ~Verifies(user[i], request.form.password)
    /\ response.flashes = <<InvalidFlash>>
    /\ session # <<>>

----------------------------------------------------------------------------
(* C9, C10 *)

\* positions of the allow-listed characters of s
KeptPositions(s) == {i \in 1..Len(s) : AllowListed(s[i])}

\* number of allow-listed characters among the first i of s
KeptUpTo(s) == [i \in 0..Len(s) |-> Cardinality({j \in 1..i : AllowListed(s[j])})]

Min(a, b) == IF a <= b THEN a ELSE b

\* C9: the result of sanitize_input is at most 256 long, holds only
\* allow-listed characters, and is the first 256 allow-listed characters of
\* the input in their order: the k-th allow-listed character of the input
\* is the k-th character of the result, for k up to 256, and the result has
\* no other character.
SanitizerContract ==
    pc # "start" =>
        \E kept \in {KeptUpTo(_input)} :
            /\ Len(result) <= 256
            /\ \A i \in 1..Len(result) : AllowListed(result[i])
            /\ Len(result) = Min(256, kept[Len(_input)])
            /\ \A i \in 1..Len(_input) :
                   (AllowListed(_input[i]) /\ kept[i] <= 256) => result[kept[i]] = _input[i]

\* an input with more than 256 allow-listed characters and some that are
\* not, sanitized
SanitizerContractWitness ==
    /\ pc # "start"
    /\ Cardinality(KeptPositions(_input)) > 256
    /\ Cardinality(KeptPositions(_input)) < Len(_input)
    /\ Len(result) = 256

\* C10: sanitizing a sanitized string changes nothing.
SanitizerIdempotent ==
    pc = "twice" => again = result

SanitizerIdempotentWitness ==
    /\ pc = "twice"
    /\ result # _input
    /\ Len(result) = 256

====
